---- MODULE Spec2Model ----
(***************************************************************************)
(* LittleLemonAPI: the tables of models.py and the request handlers of     *)
(* views.py / serializers.py, one action per HTTP request.  Money is kept  *)
(* in the smallest unit of DecimalField(decimal_places=2).  Category,      *)
(* title, featured and date take no part in the cart/order logic and are   *)
(* left out of the rows.  GET handlers change nothing; their response      *)
(* bodies are the operators CartViewSet_list and OrderViewSet_list.  Every *)
(* handler is an operator giving the response and the tables the request   *)
(* leaves (CartItemViewSet_create, OrderViewSet_create, ...) and an action *)
(* that applies it.  The permission classes are configuration outside the  *)
(* sources (permissions.py, the permissions granted to each group): every  *)
(* authenticated user is let through to the handler.                       *)
(*                                                                         *)
(* Three specifications share the tables and the handlers:                 *)
(*   Spec        catalogue, cart and order placement, one request a step;  *)
(*   SpecAccess  order placement, order update/delete and group membership;*)
(*   SpecConc    POST /orders taken one database statement at a time,      *)
(*               interleaved with other requests of the same user.         *)
(***************************************************************************)
EXTENDS Integers, FiniteSets, Sequences, TLC

\* ---------------------------------------------------------------- bounds
MaxPrice == 2
MaxQuantity == 2
MaxOrders == 2

Users == {"alice", "bob"}
Usernames == Users \cup {"nobody"}
NoUser == "null"
Omitted == "omitted"
GroupNames == {"Manager", "Delivery Crew"}
GroupSlugs == {"manager", "delivery-crew", "chefs"}
Procs == {"r1", "r2"}
ConcUser == "alice"

\* the primary keys the auto-increment sequences hand out before the model
\* stops creating rows: two menu items and two cart items in all
MenuIds == 1..2
CartItemIds == 1..2
OrderIds == 1..MaxOrders
Prices == 1..MaxPrice
\* quantity 0 is the input that min_value=1 rejects
Quantities == 0..MaxQuantity

VARIABLES
    menuItems,    \* MenuItem rows: [id, price]
    menuSeq,      \* next MenuItem id
    carts,        \* users that own a Cart row (Cart.user is one-to-one)
    cartItems,    \* CartItem rows: [id, user, menu_item, quantity]
    cartItemSeq,  \* next CartItem id
    orders,       \* Order rows: [id, user, delivery_crew, status]
    orderItems,   \* OrderItem rows: [order, menu_item, quantity, unit_price, price]
    orderSeq,     \* next Order id
    groups,       \* Group.user_set, per group name
    last,         \* the response sent last: [op, status, errors]
    pc,           \* position of each in-flight POST /orders (SpecConc)
    ocOrder,      \* ... the Order row it created (0: none yet)
    ocSnapshot,   \* ... ids of the evaluated user.cart_items.all() queryset
    ocTodo,       \* ... rows of that queryset not yet copied
    ocDeleted     \* ... ids of the CartItem rows its user.cart.delete() removed

tables == <<menuItems, menuSeq, carts, cartItems, cartItemSeq, orders, orderItems, orderSeq, groups>>
flight == <<pc, ocOrder, ocSnapshot, ocTodo, ocDeleted>>
vars == <<menuItems, menuSeq, carts, cartItems, cartItemSeq, orders, orderItems, orderSeq, groups, last, pc, ocOrder, ocSnapshot, ocTodo, ocDeleted>>

\* ---------------------------------------------------------------- helpers
Response(op, code, errors) == [op |-> op, status |-> code, errors |-> errors]

RECURSIVE SumAmount(_)
SumAmount(S) ==
    IF S = {} THEN 0
    ELSE LET x == CHOOSE y \in S : TRUE
         IN  x.amount + SumAmount(S \ {x})

MenuItemExists(m) == \E mi \in menuItems : mi.id = m
MenuPrice(m) == (CHOOSE mi \in menuItems : mi.id = m).price
UserCartItems(u) == {ci \in cartItems : ci.user = u}
OrderItemsOf(o) == {oi \in orderItems : oi.order = o}

\* python-slugify of a Group.name
slugify(name) ==
    CASE name = "Manager" -> "manager"
      [] name = "Delivery Crew" -> "delivery-crew"
      [] OTHER -> name

\* ---------------------------------------------------------------- serializers
\* CartItemSerializer.validate_menu_item_id
validate_menu_item_id(value) == MenuItemExists(value)

\* quantity: extra_kwargs min_value = 1
validate_quantity(value) == value >= 1

UniqueTogetherValidator_mut(u, m, exclude) == TRUE
\* UniqueTogetherValidator(fields=["user", "menu_item_id"]); on update the
\* instance itself is excluded from the queryset (exclude = its pk, else 0)
UniqueTogetherValidator(u, m, exclude) ==
    ~ \E ci \in cartItems : ci.user = u /\ ci.menu_item = m /\ ci.id # exclude

CartSerializer_get_total_mut(u) ==
    SumAmount({[id |-> ci.id, amount |-> MenuPrice(ci.menu_item)] : ci \in UserCartItems(u)})
\* CartSerializer.get_total over obj.cart_items (the rows of the user's cart)
CartSerializer_get_total(u) ==
    SumAmount({[id |-> ci.id, amount |-> MenuPrice(ci.menu_item) * ci.quantity] : ci \in UserCartItems(u)})

\* OrderSerializer.get_total: the stored OrderItem.price values
OrderSerializer_get_total(o) ==
    SumAmount({[id |-> oi.menu_item, amount |-> oi.price] : oi \in OrderItemsOf(o)})

validate_user_mut(u) == TRUE
\* OrderSerializer.validate_user
validate_user(u) == UserCartItems(u) # {}

validate_delivery_crew_mut(value) == value \in Users
\* OrderSerializer.validate_delivery_crew
validate_delivery_crew(value) == value \in groups["Delivery Crew"]

NewOrderItem_mut(o, item) ==
    [order |-> o, menu_item |-> item.menu_item, quantity |-> item.quantity,
     unit_price |-> MenuPrice(item.menu_item), price |-> MenuPrice(item.menu_item)]
\* OrderSerializer.create, the OrderItem.objects.create of one cart item
NewOrderItem(o, item) ==
    [order |-> o, menu_item |-> item.menu_item, quantity |-> item.quantity,
     unit_price |-> MenuPrice(item.menu_item),
     price |-> MenuPrice(item.menu_item) * item.quantity]

CartDeleteItems_mut(u) == cartItems
\* Cart.delete(): on_delete=CASCADE of CartItem.cart removes the cart's rows
CartDeleteItems(u) == {ci \in cartItems : ci.user # u}

get_queryset_mut(u) ==
    IF u \in groups["Manager"] \/ u \in groups["Delivery Crew"] THEN orders
    ELSE {o \in orders : o.user = u}
\* OrderViewSet.get_queryset
get_queryset(u) ==
    IF u \in groups["Manager"] THEN orders
    ELSE IF u \in groups["Delivery Crew"]
         THEN {o \in orders : o.user = u \/ o.delivery_crew = u}
         ELSE {o \in orders : o.user = u}

\* OrderViewSet.get_serializer_class: is delivery_crew popped for PUT/PATCH
delivery_crew_hidden(u) == u \in groups["Delivery Crew"]

\* ---------------------------------------------------------------- read handlers
\* CartViewSet.list: the requester's Cart rows, serialized with their total
CartViewSet_list(u) ==
    IF u \in carts THEN {[user |-> u, total |-> CartSerializer_get_total(u)]} ELSE {}

\* OrderViewSet.list: the rows of get_queryset, serialized with their total
OrderViewSet_list(u) ==
    {[id |-> o.id, total |-> OrderSerializer_get_total(o.id)] : o \in get_queryset(u)}

\* ---------------------------------------------------------------- initial state
Init ==
    /\ menuItems = {}
    /\ menuSeq = 1
    /\ carts = {}
    /\ cartItems = {}
    /\ cartItemSeq = 1
    /\ orders = {}
    /\ orderItems = {}
    /\ orderSeq = 1
    /\ groups = [g \in GroupNames |-> {}]
    /\ last = Response("none", 0, {})
    /\ pc = [p \in Procs |-> "idle"]
    /\ ocOrder = [p \in Procs |-> 0]
    /\ ocSnapshot = [p \in Procs |-> {}]
    /\ ocTodo = [p \in Procs |-> {}]
    /\ ocDeleted = [p \in Procs |-> {}]

\* ---------------------------------------------------------------- menu items
\* MenuItemViewSet.create
MenuItemCreate(price) ==
    /\ menuSeq \in MenuIds
    /\ menuItems' = menuItems \cup {[id |-> menuSeq, price |-> price]}
    /\ menuSeq' = menuSeq + 1
    /\ last' = Response("menu_item_create", 201, {})
    /\ UNCHANGED <<carts, cartItems, cartItemSeq, orders, orderItems, orderSeq, groups>>
    /\ UNCHANGED flight

\* MenuItemViewSet.update
MenuItemUpdate(pk, price) ==
    /\ IF MenuItemExists(pk)
       THEN /\ menuItems' = {mi \in menuItems : mi.id # pk} \cup {[id |-> pk, price |-> price]}
            /\ last' = Response("menu_item_update", 200, {})
       ELSE /\ menuItems' = menuItems
            /\ last' = Response("menu_item_update", 404, {})
    /\ UNCHANGED <<menuSeq, carts, cartItems, cartItemSeq, orders, orderItems, orderSeq, groups>>
    /\ UNCHANGED flight

\* MenuItemViewSet.destroy; CartItem.menu_item and OrderItem.menu_item are
\* on_delete=CASCADE
MenuItemDestroy(pk) ==
    /\ IF MenuItemExists(pk)
       THEN /\ menuItems' = {mi \in menuItems : mi.id # pk}
            /\ cartItems' = {ci \in cartItems : ci.menu_item # pk}
            /\ orderItems' = {oi \in orderItems : oi.menu_item # pk}
            /\ last' = Response("menu_item_destroy", 204, {})
       ELSE /\ UNCHANGED <<menuItems, cartItems, orderItems>>
            /\ last' = Response("menu_item_destroy", 404, {})
    /\ UNCHANGED <<menuSeq, carts, cartItemSeq, orders, orderSeq, groups>>
    /\ UNCHANGED flight

\* ---------------------------------------------------------------- cart
\* CartItemSerializer field validation: the names of the fields in error
CartItemFieldErrors(m, q) ==
    (IF validate_menu_item_id(m) THEN {} ELSE {"menu_item_id"})
        \cup (IF validate_quantity(q) THEN {} ELSE {"quantity"})

\* CartItemViewSet.create -> CartItemSerializer validation and create: the
\* response and the tables it leaves
CartItemViewSet_create(u, m, q) ==
    IF CartItemFieldErrors(m, q) # {}
    THEN [status |-> 400, errors |-> CartItemFieldErrors(m, q),
          carts |-> carts, cartItems |-> cartItems]
    ELSE IF ~ UniqueTogetherValidator(u, m, 0)
    THEN [status |-> 400, errors |-> {"non_field_errors"},
          carts |-> carts, cartItems |-> cartItems]
    ELSE [status |-> 201, errors |-> {},
          carts |-> carts \cup {u},
          cartItems |-> cartItems \cup
              {[id |-> cartItemSeq, user |-> u, menu_item |-> m, quantity |-> q]}]

\* POST /cart/menu-items
CartItemCreate(u, m, q) ==
    LET r == CartItemViewSet_create(u, m, q)
    IN  /\ r.status = 201 => cartItemSeq \in CartItemIds
        /\ carts' = r.carts
        /\ cartItems' = r.cartItems
        /\ cartItemSeq' = IF r.status = 201 THEN cartItemSeq + 1 ELSE cartItemSeq
        /\ last' = Response("cart_item_create", r.status, r.errors)
        /\ UNCHANGED <<menuItems, menuSeq, orders, orderItems, orderSeq, groups>>
        /\ UNCHANGED flight

\* CartItemViewSet.update / partial_update on a row of get_queryset (the
\* requester's own rows): the response and the cart items it leaves
CartItemViewSet_update(u, pk, m, q) ==
    IF ~ \E ci \in UserCartItems(u) : ci.id = pk
    THEN [status |-> 404, errors |-> {}, cartItems |-> cartItems]
    ELSE IF CartItemFieldErrors(m, q) # {}
    THEN [status |-> 400, errors |-> CartItemFieldErrors(m, q), cartItems |-> cartItems]
    ELSE IF ~ UniqueTogetherValidator(u, m, pk)
    THEN [status |-> 400, errors |-> {"non_field_errors"}, cartItems |-> cartItems]
    ELSE [status |-> 200, errors |-> {},
          cartItems |-> {ci \in cartItems : ci.id # pk} \cup
              {[id |-> pk, user |-> u, menu_item |-> m, quantity |-> q]}]

\* PUT/PATCH /cart/menu-items/<pk>
CartItemUpdate(u, pk, m, q) ==
    LET r == CartItemViewSet_update(u, pk, m, q)
    IN  /\ cartItems' = r.cartItems
        /\ last' = Response("cart_item_update", r.status, r.errors)
        /\ UNCHANGED <<menuItems, menuSeq, carts, cartItemSeq, orders, orderItems, orderSeq, groups>>
        /\ UNCHANGED flight

\* CartItemViewSet.destroy on a row of get_queryset
CartItemDestroy(u, pk) ==
    /\ IF \E ci \in UserCartItems(u) : ci.id = pk
       THEN /\ cartItems' = {ci \in cartItems : ci.id # pk}
            /\ last' = Response("cart_item_destroy", 204, {})
       ELSE /\ cartItems' = cartItems
            /\ last' = Response("cart_item_destroy", 404, {})
    /\ UNCHANGED <<menuItems, menuSeq, carts, cartItemSeq, orders, orderItems, orderSeq, groups>>
    /\ UNCHANGED flight

\* CartItemViewSet.destroy_all
destroy_all(u) ==
    /\ IF u \in carts
       THEN /\ cartItems' = CartDeleteItems(u)
            /\ carts' = carts \ {u}
       ELSE UNCHANGED <<carts, cartItems>>
    /\ last' = Response("cart_destroy_all", 204, {})
    /\ UNCHANGED <<menuItems, menuSeq, cartItemSeq, orders, orderItems, orderSeq, groups>>
    /\ UNCHANGED flight

\* ---------------------------------------------------------------- orders
\* OrderViewSet.create -> OrderSerializer.validate_user, OrderSerializer.create:
\* the response and the tables it leaves.  user.cart raises
\* RelatedObjectDoesNotExist when the user has no Cart row: the Order and its
\* items are already saved (no transaction) and the response is a 500.
OrderViewSet_create(u) ==
    IF ~ validate_user(u)
    THEN [status |-> 400, errors |-> {"user"}, orders |-> orders, orderItems |-> orderItems,
          carts |-> carts, cartItems |-> cartItems]
    ELSE [status |-> IF u \in carts THEN 201 ELSE 500,
          errors |-> {},
          orders |-> orders \cup
              {[id |-> orderSeq, user |-> u, delivery_crew |-> NoUser, status |-> FALSE]},
          orderItems |-> orderItems \cup {NewOrderItem(orderSeq, ci) : ci \in UserCartItems(u)},
          carts |-> carts \ {u},
          cartItems |-> IF u \in carts THEN CartDeleteItems(u) ELSE cartItems]

\* POST /orders
OrderCreate(u) ==
    LET r == OrderViewSet_create(u)
    IN  /\ r.status # 400 => orderSeq \in OrderIds
        /\ orders' = r.orders
        /\ orderItems' = r.orderItems
        /\ carts' = r.carts
        /\ cartItems' = r.cartItems
        /\ orderSeq' = IF r.status # 400 THEN orderSeq + 1 ELSE orderSeq
        /\ last' = Response("order_create", r.status, r.errors)
        /\ UNCHANGED <<menuItems, menuSeq, cartItemSeq, groups>>
        /\ UNCHANGED flight

\* OrderViewSet.update / partial_update on a row of get_queryset: the
\* response and the orders it leaves.  dc is the delivery_crew of the payload
\* (a user, null, or left out), st its status ("true", "false", or left out).
\* A null delivery_crew reaches validate_delivery_crew as None, whose .groups
\* raises: a 500.
OrderViewSet_update(u, pk, dc, st) ==
    IF ~ \E o \in get_queryset(u) : o.id = pk
    THEN [status |-> 404, errors |-> {}, orders |-> orders]
    ELSE LET o == CHOOSE x \in orders : x.id = pk
             given == dc # Omitted /\ ~ delivery_crew_hidden(u)
         IN  IF given /\ dc = NoUser
             THEN [status |-> 500, errors |-> {}, orders |-> orders]
             ELSE IF given /\ ~ validate_delivery_crew(dc)
             THEN [status |-> 400, errors |-> {"delivery_crew"}, orders |-> orders]
             ELSE [status |-> 200, errors |-> {},
                   orders |-> (orders \ {o}) \cup
                       {[id |-> o.id, user |-> o.user,
                         delivery_crew |-> IF given THEN dc ELSE o.delivery_crew,
                         status |-> IF st = Omitted THEN o.status ELSE st = "true"]}]

\* PUT/PATCH /orders/<pk>
OrderUpdate(u, pk, dc, st) ==
    LET r == OrderViewSet_update(u, pk, dc, st)
    IN  /\ orders' = r.orders
        /\ last' = Response("order_update", r.status, r.errors)
        /\ UNCHANGED <<menuItems, menuSeq, carts, cartItems, cartItemSeq, orderItems, orderSeq, groups>>
        /\ UNCHANGED flight

\* OrderViewSet.destroy on a row of get_queryset; OrderItem.order is
\* on_delete=CASCADE
OrderViewSet_destroy(u, pk) ==
    IF \E o \in get_queryset(u) : o.id = pk
    THEN [status |-> 204, orders |-> {o \in orders : o.id # pk},
          orderItems |-> {oi \in orderItems : oi.order # pk}]
    ELSE [status |-> 404, orders |-> orders, orderItems |-> orderItems]

\* DELETE /orders/<pk>
OrderDestroy(u, pk) ==
    LET r == OrderViewSet_destroy(u, pk)
    IN  /\ orders' = r.orders
        /\ orderItems' = r.orderItems
        /\ last' = Response("order_destroy", r.status, {})
        /\ UNCHANGED <<menuItems, menuSeq, carts, cartItems, cartItemSeq, orderSeq, groups>>
        /\ UNCHANGED flight

\* ---------------------------------------------------------------- groups
\* GroupUserViewSet.initialize_request: the groups whose slug is group_name
GroupOfSlug(group_name) == {g \in GroupNames : slugify(g) = group_name}

\* GroupUserViewSet.create
GroupUserCreate(group_name, username) ==
    /\ IF GroupOfSlug(group_name) = {} \/ username \notin Users
       THEN /\ groups' = groups
            /\ last' = Response("group_user_create", 404, {})
       ELSE LET g == CHOOSE x \in GroupOfSlug(group_name) : TRUE
            IN  /\ groups' = [groups EXCEPT ![g] = @ \cup {username}]
                /\ last' = Response("group_user_create", 201, {})
    /\ UNCHANGED <<menuItems, menuSeq, carts, cartItems, cartItemSeq, orders, orderItems, orderSeq>>
    /\ UNCHANGED flight

\* GroupUserViewSet.destroy
GroupUserDestroy(group_name, pk) ==
    /\ IF GroupOfSlug(group_name) = {}
       THEN /\ groups' = groups
            /\ last' = Response("group_user_destroy", 404, {})
       ELSE LET g == CHOOSE x \in GroupOfSlug(group_name) : TRUE
            IN  IF pk \in groups[g]
                THEN /\ groups' = [groups EXCEPT ![g] = @ \ {pk}]
                     /\ last' = Response("group_user_destroy", 200, {})
                ELSE /\ groups' = groups
                     /\ last' = Response("group_user_destroy", 404, {})
    /\ UNCHANGED <<menuItems, menuSeq, carts, cartItems, cartItemSeq, orders, orderItems, orderSeq>>
    /\ UNCHANGED flight

\* ---------------------------------------------------------------- specifications
Next ==
    \/ \E price \in Prices : MenuItemCreate(price)
    \/ \E pk \in MenuIds, price \in Prices : MenuItemUpdate(pk, price)
    \/ \E pk \in MenuIds : MenuItemDestroy(pk)
    \/ \E u \in Users, m \in MenuIds, q \in Quantities : CartItemCreate(u, m, q)
    \/ \E u \in Users, pk \in CartItemIds, m \in MenuIds, q \in Quantities : CartItemUpdate(u, pk, m, q)
    \/ \E u \in Users, pk \in CartItemIds : CartItemDestroy(u, pk)
    \/ \E u \in Users : destroy_all(u)
    \/ \E u \in Users : OrderCreate(u)

Spec == Init /\ [][Next]_vars

\* the database after a manager has put one item on the menu
InitAccess ==
    /\ menuItems = {[id |-> 1, price |-> 1]}
    /\ menuSeq = 2
    /\ carts = {}
    /\ cartItems = {}
    /\ cartItemSeq = 1
    /\ orders = {}
    /\ orderItems = {}
    /\ orderSeq = 1
    /\ groups = [g \in GroupNames |-> {}]
    /\ last = Response("none", 0, {})
    /\ pc = [p \in Procs |-> "idle"]
    /\ ocOrder = [p \in Procs |-> 0]
    /\ ocSnapshot = [p \in Procs |-> {}]
    /\ ocTodo = [p \in Procs |-> {}]
    /\ ocDeleted = [p \in Procs |-> {}]

NextAccess ==
    \/ \E u \in Users : CartItemCreate(u, 1, 1)
    \/ \E u \in Users : OrderCreate(u)
    \/ \E u \in Users, pk \in OrderIds, dc \in Users \cup {NoUser, Omitted},
          st \in {"true", "false", Omitted} : OrderUpdate(u, pk, dc, st)
    \/ \E u \in Users, pk \in OrderIds : OrderDestroy(u, pk)
    \/ \E g \in GroupSlugs, username \in Usernames : GroupUserCreate(g, username)
    \/ \E g \in GroupSlugs, pk \in Usernames : GroupUserDestroy(g, pk)

SpecAccess == InitAccess /\ [][NextAccess]_vars

\* ---------------------------------------------------------------- POST /orders, statement by statement
\* Django runs each ORM call in its own autocommit transaction; the handler
\* opens no transaction.atomic() block and takes no lock.  Every step below
\* is one ORM call of OrderSerializer.validate_user / OrderSerializer.create.

\* validate_user: value.cart_items.exists()
OCValidate(p) ==
    /\ pc[p] = "idle"
    /\ IF validate_user(ConcUser)
       THEN /\ pc' = [pc EXCEPT ![p] = "create"]
            /\ last' = last
       ELSE /\ pc' = [pc EXCEPT ![p] = "done"]
            /\ last' = Response("order_create", 400, {"user"})
    /\ UNCHANGED tables
    /\ UNCHANGED <<ocOrder, ocSnapshot, ocTodo, ocDeleted>>

\* order = Order.objects.create(**validated_data)
OCCreateOrder(p) ==
    /\ pc[p] = "create"
    /\ orderSeq \in OrderIds
    /\ orders' = orders \cup
           {[id |-> orderSeq, user |-> ConcUser, delivery_crew |-> NoUser, status |-> FALSE]}
    /\ orderSeq' = orderSeq + 1
    /\ ocOrder' = [ocOrder EXCEPT ![p] = orderSeq]
    /\ pc' = [pc EXCEPT ![p] = "read"]
    /\ UNCHANGED <<menuItems, menuSeq, carts, cartItems, cartItemSeq, orderItems, groups, last>>
    /\ UNCHANGED <<ocSnapshot, ocTodo, ocDeleted>>

\* for item in user.cart_items.all(): the queryset is evaluated once
OCReadCart(p) ==
    /\ pc[p] = "read"
    /\ ocSnapshot' = [ocSnapshot EXCEPT ![p] = {ci.id : ci \in UserCartItems(ConcUser)}]
    /\ ocTodo' = [ocTodo EXCEPT ![p] = UserCartItems(ConcUser)]
    /\ pc' = [pc EXCEPT ![p] = "copy"]
    /\ UNCHANGED tables
    /\ UNCHANGED <<last, ocOrder, ocDeleted>>

\* OrderItem.objects.create(...) for one row of the evaluated queryset, in
\* any order (the queryset has no ordering); item.menu_item is fetched now
\* (the menu does not change under SpecConc, so the row is there)
OCCopyItem(p) ==
    /\ pc[p] = "copy"
    /\ \E item \in ocTodo[p] :
          /\ ocTodo' = [ocTodo EXCEPT ![p] = @ \ {item}]
          /\ orderItems' = orderItems \cup {NewOrderItem(ocOrder[p], item)}
    /\ UNCHANGED <<menuItems, menuSeq, carts, cartItems, cartItemSeq, orders, orderSeq, groups, last>>
    /\ UNCHANGED <<pc, ocOrder, ocSnapshot, ocDeleted>>

\* user.cart.delete(): the Cart row of that moment and, by cascade, every
\* CartItem row that points at it
OCDeleteCart(p) ==
    /\ pc[p] = "copy"
    /\ ocTodo[p] = {}
    /\ IF ConcUser \in carts
       THEN /\ ocDeleted' = [ocDeleted EXCEPT ![p] = {ci.id : ci \in UserCartItems(ConcUser)}]
            /\ cartItems' = CartDeleteItems(ConcUser)
            /\ carts' = carts \ {ConcUser}
            /\ last' = Response("order_create", 201, {})
       ELSE /\ UNCHANGED <<carts, cartItems, ocDeleted>>
            /\ last' = Response("order_create", 500, {})
    /\ pc' = [pc EXCEPT ![p] = "done"]
    /\ UNCHANGED <<menuItems, menuSeq, cartItemSeq, orders, orderItems, orderSeq, groups>>
    /\ UNCHANGED <<ocOrder, ocSnapshot, ocTodo>>

\* the database after a manager has put two items on the menu
InitConc ==
    /\ menuItems = {[id |-> 1, price |-> 1], [id |-> 2, price |-> 2]}
    /\ menuSeq = 3
    /\ carts = {}
    /\ cartItems = {}
    /\ cartItemSeq = 1
    /\ orders = {}
    /\ orderItems = {}
    /\ orderSeq = 1
    /\ groups = [g \in GroupNames |-> {}]
    /\ last = Response("none", 0, {})
    /\ pc = [p \in Procs |-> "idle"]
    /\ ocOrder = [p \in Procs |-> 0]
    /\ ocSnapshot = [p \in Procs |-> {}]
    /\ ocTodo = [p \in Procs |-> {}]
    /\ ocDeleted = [p \in Procs |-> {}]

NextConc ==
    \/ \E m \in MenuIds, q \in Quantities : CartItemCreate(ConcUser, m, q)
    \/ \E p \in Procs : OCValidate(p)
    \/ \E p \in Procs : OCCreateOrder(p)
    \/ \E p \in Procs : OCReadCart(p)
    \/ \E p \in Procs : OCCopyItem(p)
    \/ \E p \in Procs : OCDeleteCart(p)

SpecConc == InitConc /\ [][NextConc]_vars

\* ---------------------------------------------------------------- properties
HasCartItem(u, m) == \E ci \in cartItems : ci.user = u /\ ci.menu_item = m

RECURSIVE SumOver(_, _)
SumOver(f, S) ==
    IF S = {} THEN 0
    ELSE LET i == CHOOSE j \in S : TRUE
         IN  f[i] + SumOver(f, S \ {i})

\* C1: for every user, a POST /orders made while that user has no cart item
\* is rejected with a validation error (400 on field user); it creates no
\* Order and no OrderItem and leaves every cart, cart item and order as is.
C1_EmptyCartRejected ==
    \A u \in Users :
       UserCartItems(u) = {} =>
           LET r == OrderViewSet_create(u)
           IN  /\ r.status = 400
               /\ "user" \in r.errors
               /\ r.orders = orders
               /\ r.orderItems = orderItems
               /\ r.carts = carts
               /\ r.cartItems = cartItems

\* an empty-cart order was just rejected while an earlier order and another
\* user's cart item exist
C1_Witness ==
    /\ last.op = "order_create"
    /\ last.status = 400
    /\ orders # {}
    /\ cartItems # {}

\* C2: a successful POST /orders adds exactly one Order, of the requester,
\* whose items are the requester's cart items of that moment: as many order
\* items as cart items, each cart item matched by an order item with the same
\* menu item and quantity, unit_price the menu item's price at that moment and
\* price = unit_price * quantity; no other order gains or loses an item.
C2_OrderSnapshotsCart ==
    \A u \in Users :
       LET r == OrderViewSet_create(u)
       IN  r.status = 201 =>
              /\ Cardinality(r.orders \ orders) = 1
              /\ orders \subseteq r.orders
              /\ \A o \in r.orders \ orders :
                    LET items == {oi \in r.orderItems : oi.order = o.id}
                    IN  /\ o.user = u
                        /\ Cardinality(items) = Cardinality(UserCartItems(u))
                        /\ \A ci \in UserCartItems(u) :
                              \E oi \in items :
                                 /\ oi.menu_item = ci.menu_item
                                 /\ oi.quantity = ci.quantity
                                 /\ oi.unit_price = MenuPrice(ci.menu_item)
                                 /\ oi.price = oi.unit_price * oi.quantity
                        /\ r.orderItems \ items = orderItems

\* an order of two items was just placed, one of them two units of a menu
\* item priced 2
C2_Witness ==
    /\ last.op = "order_create"
    /\ last.status = 201
    /\ \E o \in orders :
          /\ o.id = orderSeq - 1
          /\ Cardinality(OrderItemsOf(o.id)) = 2
          /\ \E oi \in OrderItemsOf(o.id) : oi.quantity = 2 /\ oi.unit_price = 2 /\ oi.price = 4

\* C3: right after a successful POST /orders the requester has no cart item
\* and no Cart row, and every other user's Cart row and cart items are as
\* they were.
C3_CartRemovedOnOrder ==
    \A u \in Users :
       LET r == OrderViewSet_create(u)
       IN  r.status = 201 =>
              /\ u \notin r.carts
              /\ \A ci \in r.cartItems : ci.user # u
              /\ \A v \in Users \ {u} :
                    /\ (v \in r.carts) = (v \in carts)
                    /\ {ci \in r.cartItems : ci.user = v} = UserCartItems(v)

\* an order was just placed and its owner's cart is gone while another
\* user's cart still holds an item
C3_Witness ==
    /\ last.op = "order_create"
    /\ last.status = 201
    /\ \E o \in orders :
          /\ o.id = orderSeq - 1
          /\ o.user \notin carts
          /\ UserCartItems(o.user) = {}
          /\ \E v \in carts : v # o.user /\ UserCartItems(v) # {}

\* C4: no two cart items share (user, menu item) in any reachable state; a
\* cart-item create, or an update of one of the requester's rows to another
\* menu item, that would make a second row for the same (user, menu item) is
\* answered 400 and leaves the cart items as they were.
C4_CartItemsUnique ==
    /\ \A a \in cartItems, b \in cartItems :
          (a.user = b.user /\ a.menu_item = b.menu_item) => a = b
    /\ \A u \in Users, m \in MenuIds, q \in Quantities :
          HasCartItem(u, m) =>
              LET r == CartItemViewSet_create(u, m, q)
              IN  r.status = 400 /\ r.cartItems = cartItems
    /\ \A u \in Users, pk \in CartItemIds, m \in MenuIds, q \in Quantities :
          (/\ \E ci \in UserCartItems(u) : ci.id = pk /\ ci.menu_item # m
           /\ HasCartItem(u, m)) =>
              LET r == CartItemViewSet_update(u, pk, m, q)
              IN  r.status = 400 /\ r.cartItems = cartItems

\* an update that moved one of a user's two cart items onto the menu item of
\* the other was just rejected by the uniqueness validator
C4_Witness ==
    /\ last.op = "cart_item_update"
    /\ last.status = 400
    /\ last.errors = {"non_field_errors"}
    /\ \E u \in Users : Cardinality(UserCartItems(u)) = 2

C6_DeliveryCrewInGroup ==
    \A o \in orders : o.delivery_crew = NoUser \/ o.delivery_crew \in groups["Delivery Crew"]

ExpectedCartTotal(u) ==
    SumOver([m \in MenuIds |->
                IF HasCartItem(u, m)
                THEN MenuPrice(m) * (CHOOSE ci \in UserCartItems(u) : ci.menu_item = m).quantity
                ELSE 0], MenuIds)

ExpectedOrderTotal(o) ==
    SumOver([m \in MenuIds |->
                IF \E oi \in OrderItemsOf(o) : oi.menu_item = m
                THEN LET oi == CHOOSE x \in OrderItemsOf(o) : x.menu_item = m
                     IN  oi.unit_price * oi.quantity
                ELSE 0], MenuIds)

C8_OrderItemsImmutable ==
    [][\A o \in orders :
          (\E n \in orders' : n.id = o.id) =>
              {oi \in orderItems' : oi.order = o.id} = OrderItemsOf(o.id)]_vars

ReachableOrders(u) ==
    {o \in orders :
        \/ u \in groups["Manager"]
        \/ o.user = u
        \/ (u \in groups["Delivery Crew"] /\ o.delivery_crew = u)}

\* C9: with the group membership of the moment, a Manager reaches every
\* order, a Delivery Crew member who is no Manager exactly the orders they
\* placed or are assigned to, anyone else exactly the orders they placed: the
\* list shows exactly those, and an update or delete is answered 404 exactly
\* for the others.
C9_OrderReach ==
    \A u \in Users :
       LET reach == {o.id : o \in ReachableOrders(u)}
       IN  /\ {r.id : r \in OrderViewSet_list(u)} = reach
           /\ \A pk \in OrderIds :
                 /\ (OrderViewSet_destroy(u, pk).status = 404) = (pk \notin reach)
                 /\ \A dc \in Users \cup {NoUser, Omitted}, st \in {"true", "false", Omitted} :
                       (OrderViewSet_update(u, pk, dc, st).status = 404) = (pk \notin reach)

\* a Delivery Crew member who is no Manager, assigned to another user's order
\* and not to that user's second order
C9_Witness ==
    \E u \in groups["Delivery Crew"] \ groups["Manager"] :
       /\ \E o \in orders : o.user # u /\ o.delivery_crew = u
       /\ \E o \in orders : o.user # u /\ o.delivery_crew # u
       /\ last.op = "order_update"

\* C10: concurrent requests of one user leave the state some serial order of
\* them would: once the POST /orders requests are through, every cart item one
\* of them deleted is one it copied into its order, and no cart item was
\* copied into two orders.
C10_OrderCreationAtomic ==
    (\A p \in Procs : pc[p] = "done") =>
        /\ \A p \in Procs : ocDeleted[p] \subseteq ocSnapshot[p]
        /\ \A p \in Procs, q \in Procs : p # q => ocSnapshot[p] \cap ocSnapshot[q] = {}
====
